---------------------------- MODULE Spec2Model ----------------------------
(***************************************************************************)
(* Eyelocater annotation pipeline (src/eyelocater_core.py) and its legacy  *)
(* front-end (src/GUI.py, src/singleR_annotation.py).                      *)
(*                                                                         *)
(* Spec      : one run of run_annotation_with_info, stage by stage.        *)
(* SpecGenes : the gene-list resolver (_parse_gene_list, _validate_genes)  *)
(*             applied to bounded inputs.                                  *)
(* SpecPlot  : _plot_and_save on an annotated dataset.                     *)
(* SpecPreload, SpecRef, SpecConstructed : one run, on configs with        *)
(*             caller-set attributes, on a processed reference file, and   *)
(*             on configs built by the dataclass constructor.              *)
(* SpecLegacy: one click on Run Annotation in the legacy front-end.        *)
(*                                                                         *)
(* A Python str is a sequence of one-character strings; Optional[str] is   *)
(* a record [isNone, val].  An exception message is a sequence of words.   *)
(***************************************************************************)
EXTENDS Integers, Sequences, FiniteSets, TLC

VARIABLES
    pc,            \* position of the run inside run_annotation_with_info
    config,        \* the AnnotationConfig of the run
    data,          \* main dataset handle: cells, tl.result keys, gene_names
    ref,           \* reference dataset handle
    res,           \* data.tl.result["phenograph"] (the clustering table)
    tried,         \* _run_singler: local list `tried`
    calls,         \* every data.tl.single_r call made, in order
    method_used,   \* return value of _run_singler
    filter_calls,  \* every data.tl.filter_cells(cell_list=...) call, in order
    plot_files,    \* _plot_and_save: the dict it builds and returns
    saved,         \* every file plt.savefig has written, in order
    open_figs,     \* matplotlib figures currently open
    valid_genes,   \* _plot_and_save: local list `valid_genes`
    gi,            \* _plot_and_save: position of the gene loop
    error,         \* the exception the run ended with
    gene_str,      \* SpecGenes: argument of _parse_gene_list
    genes,         \* SpecGenes: result of _parse_gene_list / argument of _validate_genes
    reparsed,      \* SpecGenes: _parse_gene_list of the re-joined result
    validated,     \* SpecGenes: outcome of _validate_genes
    gpc,           \* SpecGenes: position
    entries,       \* GUI.py: the values of the form's widgets
    lpc,           \* GUI.py / singleR_annotation.py: position of the legacy run
    stdout,        \* singleR_annotation.py: the lines it has printed
    result,        \* GUI.py: result of subprocess.run
    dialog         \* GUI.py: the message box shown

vars == <<pc, config, data, ref, res, tried, calls, method_used, filter_calls,
          plot_files, saved, open_figs, valid_genes, gi, error, gene_str, genes, reparsed, validated, gpc,
          entries, lpc, stdout, result, dialog>>

plotVars == <<plot_files, saved, open_figs, valid_genes, gi>>
geneVars == <<gene_str, genes, reparsed, validated, gpc>>
legacyVars == <<entries, lpc, stdout, result, dialog>>

----------------------------------------------------------------------------
(* Bounds of the model *)

MaxRows == 2        \* rows of the clustering table
MaxStrLen == 5      \* characters of a gene selector string
MaxGenes == 3       \* length of a gene list handed to _validate_genes

----------------------------------------------------------------------------
(* Generic helpers *)

Range(s) == {s[i] : i \in 1..Len(s)}

SeqsUpTo(S, n) == UNION {[1..k -> S] : k \in 0..n}

\* Optional[str]
NoneStr == [isNone |-> TRUE, val |-> <<>>]
Str(s) == [isNone |-> FALSE, val |-> s]

\* Python truthiness of an Optional[str]: None and "" are falsy
Falsy(o) == o.isNone \/ o.val = <<>>

\* Python `sub in s` on sequences
Contains(s, sub) ==
    \E i \in 0..(Len(s) - Len(sub)) :
        \A j \in 1..Len(sub) : s[i + j] = sub[j]

\* str.lower() on the backend names the model uses
Lower(m) == CASE m = "RAPIDS" -> "rapids"
              [] m = "CPU" -> "cpu"
              [] OTHER -> m

----------------------------------------------------------------------------
(* Constants of the program *)

\* CLUSTER_TO_LOCATION, keyed by cluster id string
CLUSTER_TO_LOCATION ==
    [c \in {"1", "2", "3", "4", "7", "9", "27", "35"} |-> "lens"] @@
    [c \in {"6", "10", "11", "15", "16", "20", "22", "25", "28", "29", "32",
            "33", "43"} |-> "retina"] @@
    [c \in {"8", "13", "23", "24", "42"} |-> "sclera & choroid"] @@
    [c \in {"12", "14", "26", "36", "37", "38"} |-> "iris & ciliary"] @@
    [c \in {"17", "18", "19", "21"} |-> "cornea"] @@
    [c \in {"31"} |-> "optic nerve"] @@
    [c \in {"5", "30", "34", "39", "40", "41", "44", "45", "46", "47", "48",
            "49", "50"} |-> "unknown"]

\* pandas marks a key the dict does not hold with NaN
NaN == "NaN"

\* Series.map(CLUSTER_TO_LOCATION) on one value
MapLocation(group) ==
    IF group \in DOMAIN CLUSTER_TO_LOCATION THEN CLUSTER_TO_LOCATION[group]
    ELSE NaN

\* the substring _run_singler looks for in the exception message
RapidsSignature == <<"don't", "have", "GPU", "related", "RAPIDS", "packages">>

----------------------------------------------------------------------------
(* Inputs of a run *)

Methods == {"rapids", "cpu", "RAPIDS", "gpu"}

Regions == {"eye", "retina", "cornea", "lens"}

\* messages the label-transfer call can fail with
Messages ==
    { <<"Your", "env", "don't", "have", "GPU", "related", "RAPIDS", "packages">>,
      <<"don't", "have", "GPU", "related", "RAPIDS">>,
      <<"RAPIDS", "packages", "don't", "have", "GPU">>,
      <<"CUDA", "out", "of", "memory">>,
      <<>> }

\* cluster ids seen in the table: retina, cornea, lens, "unknown", and an
\* id the map has no entry for
Groups == {"6", "17", "1", "5", "51"}

\* the clustering table: row i is bin i with a cluster group
Tables == { [i \in 1..Len(g) |-> [bins |-> i, group |-> g[i]]] :
            g \in SeqsUpTo(Groups, MaxRows) }

\* gene names: "a", "b", "c" and one with a blank inside
GeneA == <<"a">>
GeneB == <<"b">>
GeneAB == <<"a", " ", "b">>

\* data.gene_names of the datasets a run loads
RunVocabularies == { <<GeneA, GeneB>> }

\* config.gene of a run: absent, "a;c", "c"
RunSelectors == { NoneStr, Str(<<"a", ";", "c">>), Str(<<"c">>) }

\* config.gene_out_pattern of a run: "" and "o.p"
RunPatterns == { <<>>, <<"o", ".", "p">> }

\* config.out_pdf, "cluster_scatter_output.pdf", shortened to "c.pdf"
OutPdf == <<"c", ".", "p", "d", "f">>

\* attributes a caller can set on the config object that are no fields of
\* the dataclass
ExtraAttributes == {"preloaded_main_dataset", "preloaded_reference_dataset"}

\* config.ref_path: a reference file as the atlas ships it, and one written
\* back after normalize_total and log1p, which carries the marker of that
RawRef == "raw.h5ad"
ProcessedRef == "processed.h5ad"
RefPaths == {RawRef, ProcessedRef}

\* read_h5ad(path): does the file carry the marker of prior processing
FileMarked(path) == path = ProcessedRef

\* extra: the attributes of ExtraAttributes the caller has set
Configs ==
    [ref_path : {RawRef}, method : Methods, data_region : Regions,
     plot_type : {"cell", "gene", "both"}, gene : RunSelectors,
     gene_out_pattern : RunPatterns, out_pdf : {OutPdf}, extra : {{}}]

NoError == [kind |-> "none", backends |-> <<>>, stage |-> "none"]

AnnotationError(stage, backends) ==
    [kind |-> "AnnotationError", backends |-> backends, stage |-> stage]

----------------------------------------------------------------------------
(* The dataset handles *)

\* source: where the handle was read from
NoData == [loaded |-> FALSE, cells |-> {}, annotation |-> FALSE,
           gene_names |-> <<>>, gene_names_ok |-> TRUE, source |-> "none"]

NoRef == [loaded |-> FALSE, marked |-> FALSE, normalized |-> 0, log1p |-> 0,
          source |-> "none"]

NoRes == [present |-> FALSE, rows |-> <<>>, has_location |-> FALSE,
          location |-> <<>>]

\* the h5ad file read: its cells are the bins of its clustering table
ReadStereo(table, gene_names, gene_names_ok) ==
    [loaded |-> TRUE, cells |-> {table[i].bins : i \in 1..Len(table)},
     annotation |-> FALSE, gene_names |-> gene_names,
     gene_names_ok |-> gene_names_ok, source |-> "disk"]

ReadResult(table, has_phenograph) ==
    IF has_phenograph
    THEN [present |-> TRUE, rows |-> table, has_location |-> FALSE,
          location |-> <<>>]
    ELSE NoRes

\* the legacy front-end before it is used
NoEntries == [ref_path |-> "", ref_col |-> "", region |-> "eye"]
NoResult == [present |-> FALSE, returncode |-> 0]

LegacyIdle ==
    /\ entries = NoEntries
    /\ lpc = "off"
    /\ stdout = <<>>
    /\ result = NoResult
    /\ dialog = "none"

----------------------------------------------------------------------------
(* _load_main_data *)

\* fault: the error of a stage is recorded and the run goes on to plotting
Raise_Continue(stage, backends) ==
    /\ pc' = "plot"
    /\ error' = AnnotationError(stage, backends)

\* a stage that raised: the run ends with its AnnotationError
Raise(stage, backends) ==
    /\ pc' = "failed"
    /\ error' = AnnotationError(stage, backends)

LoadMainData ==
    /\ pc = "load_main"
    /\ \E ok \in BOOLEAN, table \in Tables, has_phenograph \in BOOLEAN,
          gene_names \in RunVocabularies, gene_names_ok \in BOOLEAN :
        IF ok
        THEN /\ data' = ReadStereo(table, gene_names, gene_names_ok)
             /\ res' = ReadResult(table, has_phenograph)
             /\ pc' = "load_ref"
             /\ UNCHANGED error
        ELSE /\ Raise("load_main", <<>>)
             /\ UNCHANGED <<data, res>>
    /\ UNCHANGED <<config, ref, tried, calls, method_used, filter_calls, plotVars>>
    /\ UNCHANGED geneVars
    /\ UNCHANGED legacyVars

(* _load_and_preprocess_ref *)

\* the reference after read_h5ad, normalize_total and log1p, as far as they
\* got; normalized and log1p count the calls this load has made
PreprocessRef(path, outcome) ==
    [loaded |-> TRUE,
     marked |-> FileMarked(path),
     normalized |-> IF outcome = "normalize_fail" THEN 0 ELSE 1,
     log1p |-> IF outcome = "ok" THEN 1 ELSE 0,
     source |-> "disk"]

LoadAndPreprocessRef ==
    /\ pc = "load_ref"
    /\ \E outcome \in {"ok", "read_fail", "normalize_fail", "log1p_fail"} :
        IF outcome = "read_fail"
        THEN /\ Raise("load_ref", <<>>)
             /\ UNCHANGED ref
        ELSE /\ ref' = PreprocessRef(config.ref_path, outcome)
             /\ IF outcome = "ok"
                THEN pc' = "singler" /\ UNCHANGED error
                ELSE Raise("load_ref", <<>>)
    /\ UNCHANGED <<config, data, res, tried, calls, method_used, filter_calls, plotVars>>
    /\ UNCHANGED geneVars
    /\ UNCHANGED legacyVars

----------------------------------------------------------------------------
(* _run_singler *)

\* one data.tl.single_r call, as _call makes it
Call(method, ok, msg) == [method |-> method, ok |-> ok, msg |-> msg]

\* fault: the retry condition without the test of the preferred backend
UseFallback_AnyBackend(msg, method) == Contains(msg, RapidsSignature)

\* the condition under which the except branch retries with cpu
UseFallback(msg, method) ==
    Contains(msg, RapidsSignature) /\ Lower(method) = "rapids"

\* fault: the retry repeats the preferred backend
FallbackMethod_Preferred == config.method

\* the backend of the retry
FallbackMethod == "cpu"

\* fault: the preferred backend is returned whichever call succeeded
CallReturn_Preferred(call) == config.method

\* _call returns the method it was called with
CallReturn(call) == call.method

\* the error of the else branch: names `method`
FirstFailedError(method) == AnnotationError("singler", <<method>>)

\* fault: the error after the retry names the last backend only
BothFailedError_LastOnly(tr) == AnnotationError("singler", <<tr[Len(tr)]>>)

\* the error after the retry failed: names the list `tried`
BothFailedError(tr) == AnnotationError("singler", tr)

\* raise err out of the run
RaiseError(err) ==
    /\ pc' = "failed"
    /\ error' = err

\* first try: tried.append(method); return _call(method)
SinglerFirstAttempt ==
    /\ pc = "singler"
    /\ LET method == config.method IN
       \E ok \in BOOLEAN, msg \in Messages :
        /\ tried' = Append(tried, method)
        /\ calls' = Append(calls, Call(method, ok, IF ok THEN <<>> ELSE msg))
        /\ IF ok
           THEN /\ method_used' = CallReturn(Call(method, ok, <<>>))
                /\ data' = [data EXCEPT !.annotation = TRUE]
                /\ pc' = "filter"
                /\ UNCHANGED error
           ELSE /\ UNCHANGED <<method_used, data>>
                /\ IF UseFallback(msg, method)
                   THEN pc' = "singler_fallback" /\ UNCHANGED error
                   ELSE RaiseError(FirstFailedError(method))
    /\ UNCHANGED <<config, ref, res, filter_calls, plotVars>>
    /\ UNCHANGED geneVars
    /\ UNCHANGED legacyVars

\* the retry inside the except branch: tried.append("cpu"); return _call("cpu")
SinglerFallbackAttempt ==
    /\ pc = "singler_fallback"
    /\ \E ok \in BOOLEAN, msg \in Messages :
        /\ tried' = Append(tried, FallbackMethod)
        /\ calls' = Append(calls, Call(FallbackMethod, ok, IF ok THEN <<>> ELSE msg))
        /\ IF ok
           THEN /\ method_used' = CallReturn(Call(FallbackMethod, ok, <<>>))
                /\ data' = [data EXCEPT !.annotation = TRUE]
                /\ pc' = "filter"
                /\ UNCHANGED error
           ELSE /\ UNCHANGED <<method_used, data>>
                /\ RaiseError(BothFailedError(tried'))
    /\ UNCHANGED <<config, ref, res, filter_calls, plotVars>>
    /\ UNCHANGED geneVars
    /\ UNCHANGED legacyVars

----------------------------------------------------------------------------
(* _filter_by_region *)

\* fault: the whole-eye shortcut is never taken
IsWholeEye_Never(region) == FALSE

\* region == "eye": no additional filtering
IsWholeEye(region) == region = "eye"

\* fault: a missing clustering result is skipped over silently
HasPhenograph_Skip(r) == TRUE

\* data.tl.result["phenograph"] does not raise
HasPhenograph(r) == r.present

\* res["location"] = res["group"].map(CLUSTER_TO_LOCATION)
LocationColumn(rows) == [i \in 1..Len(rows) |-> MapLocation(rows[i].group)]

\* fault: rows without a mapped location pass the selection too
RowSelected_OrUnmapped(location, region) == location = region \/ location = NaN

\* does row i pass res["location"] == region
RowSelected(location, region) == location = region

RECURSIVE SelectBins(_, _, _, _)
SelectBins(rows, location, region, i) ==
    IF i > Len(rows) THEN <<>>
    ELSE (IF RowSelected(location[i], region) THEN <<rows[i].bins>> ELSE <<>>)
         \o SelectBins(rows, location, region, i + 1)

\* res.loc[res["location"] == region, "bins"].tolist()
RegionBins(rows, location, region) == SelectBins(rows, location, region, 1)

\* data.tl.filter_cells(cell_list=bins) on the cells of the dataset
FilterCells(cells, bins) == cells \cap Range(bins)

FilterByRegion ==
    /\ pc = "filter"
    /\ LET region == config.data_region IN
       IF IsWholeEye(region)
       THEN /\ pc' = "plot"
            /\ UNCHANGED <<data, res, filter_calls, error>>
       ELSE IF region \notin {"retina", "cornea"}
       THEN /\ Raise("filter", <<>>)
            /\ UNCHANGED <<data, res, filter_calls>>
       ELSE IF ~HasPhenograph(res)
       THEN /\ Raise("filter", <<>>)
            /\ UNCHANGED <<data, res, filter_calls>>
       ELSE \E outcome \in {"ok", "map_fail", "filter_fail"} :
            IF outcome = "map_fail"
            THEN /\ Raise("filter", <<>>)
                 /\ UNCHANGED <<data, res, filter_calls>>
            ELSE LET location == LocationColumn(res.rows)
                     bins == RegionBins(res.rows, location, region)
                 IN /\ res' = [res EXCEPT !.has_location = TRUE,
                                          !.location = location]
                    /\ filter_calls' = Append(filter_calls, bins)
                    /\ IF outcome = "ok"
                       THEN /\ data' = [data EXCEPT
                                          !.cells = FilterCells(data.cells, bins)]
                            /\ pc' = "plot"
                            /\ UNCHANGED error
                       ELSE /\ Raise("filter", <<>>)
                            /\ UNCHANGED data
    /\ UNCHANGED <<config, ref, tried, calls, method_used, plotVars>>
    /\ UNCHANGED geneVars
    /\ UNCHANGED legacyVars

----------------------------------------------------------------------------
(* _parse_gene_list *)

\* the characters of r"[;,]"
Delimiters == {";", ","}

\* the characters str.strip() removes
Whitespace == {" ", "\t", "\n"}

\* re.split(r"[;,]", s): cur is the part being read
RECURSIVE ReSplitFrom(_, _, _)
ReSplitFrom(s, i, cur) ==
    IF i > Len(s) THEN <<cur>>
    ELSE IF s[i] \in Delimiters
         THEN <<cur>> \o ReSplitFrom(s, i + 1, <<>>)
         ELSE ReSplitFrom(s, i + 1, Append(cur, s[i]))

ReSplit(s) == ReSplitFrom(s, 1, <<>>)

RECURSIVE LStrip(_)
LStrip(p) ==
    IF p # <<>> /\ Head(p) \in Whitespace THEN LStrip(Tail(p)) ELSE p

RECURSIVE RStrip(_)
RStrip(p) ==
    IF p # <<>> /\ p[Len(p)] \in Whitespace
    THEN RStrip(SubSeq(p, 1, Len(p) - 1))
    ELSE p

\* fault: only leading blanks are removed
Strip_LeftOnly(p) == LStrip(p)

\* str.strip()
Strip(p) == RStrip(LStrip(p))

\* fault: the loop looks up and records the untrimmed part in seen
RECURSIVE CleanLoop_SeenRaw(_, _, _, _)
CleanLoop_SeenRaw(parts, i, cleaned, seen) ==
    IF i > Len(parts) THEN cleaned
    ELSE LET g == Strip(parts[i]) IN
         IF g = <<>> THEN CleanLoop_SeenRaw(parts, i + 1, cleaned, seen)
         ELSE IF parts[i] \in seen
         THEN CleanLoop_SeenRaw(parts, i + 1, cleaned, seen)
         ELSE CleanLoop_SeenRaw(parts, i + 1, Append(cleaned, g),
                                seen \cup {parts[i]})

\* the for loop over parts, with its locals cleaned and seen
RECURSIVE CleanLoop(_, _, _, _)
CleanLoop(parts, i, cleaned, seen) ==
    IF i > Len(parts) THEN cleaned
    ELSE LET g == Strip(parts[i]) IN
         IF g = <<>> THEN CleanLoop(parts, i + 1, cleaned, seen)
         ELSE IF g \in seen THEN CleanLoop(parts, i + 1, cleaned, seen)
         ELSE CleanLoop(parts, i + 1, Append(cleaned, g), seen \cup {g})

ParseGeneList(gene) ==
    IF Falsy(gene) THEN <<>>
    ELSE CleanLoop(ReSplit(gene.val), 1, <<>>, {})

\* sep.join(list)
RECURSIVE Join(_, _)
Join(list, sep) ==
    IF list = <<>> THEN <<>>
    ELSE IF Len(list) = 1 THEN list[1]
    ELSE list[1] \o <<sep>> \o Join(Tail(list), sep)

----------------------------------------------------------------------------
(* _validate_genes *)

\* set(map(str, data.gene_names))
Available(gene_names) == Range(gene_names)

\* fault: every requested gene counts as present
IsValidGene_All(g, available) == TRUE

IsValidGene(g, available) == g \in available

\* fault: an invalid gene raises instead of being reported
ValidateGenes_RaiseOnInvalid(d, gs) ==
    IF gs = <<>>
    THEN [raised |-> FALSE, valid |-> <<>>, invalid |-> <<>>]
    ELSE LET available == Available(d.gene_names)
             invalid == SelectSeq(gs, LAMBDA g : ~IsValidGene(g, available))
         IN IF ~d.gene_names_ok \/ invalid # <<>>
            THEN [raised |-> TRUE, valid |-> <<>>, invalid |-> <<>>]
            ELSE [raised |-> FALSE, valid |-> gs, invalid |-> <<>>]

\* the outcome: raised, or the pair (valid, invalid)
ValidateGenes(d, gs) ==
    IF gs = <<>>
    THEN [raised |-> FALSE, valid |-> <<>>, invalid |-> <<>>]
    ELSE IF ~d.gene_names_ok
    THEN [raised |-> TRUE, valid |-> <<>>, invalid |-> <<>>]
    ELSE LET available == Available(d.gene_names) IN
         [raised |-> FALSE,
          valid |-> SelectSeq(gs, LAMBDA g : IsValidGene(g, available)),
          invalid |-> SelectSeq(gs, LAMBDA g : ~IsValidGene(g, available))]

----------------------------------------------------------------------------
(* _plot_and_save *)

\* "spatial_scatter_*.pdf"
DefaultGenePattern ==
    <<"s", "p", "a", "t", "i", "a", "l", "_", "s", "c", "a", "t", "t", "e",
      "r", "_", "*", ".", "p", "d", "f">>

\* fault: only the first occurrence is replaced
RECURSIVE Replace_FirstOnly(_, _, _)
Replace_FirstOnly(s, old, new) ==
    IF s = <<>> THEN <<>>
    ELSE IF Head(s) = old THEN new \o Tail(s)
    ELSE <<Head(s)>> \o Replace_FirstOnly(Tail(s), old, new)

\* str.replace(old, new) for a one-character old
RECURSIVE Replace(_, _, _)
Replace(s, old, new) ==
    IF s = <<>> THEN <<>>
    ELSE (IF Head(s) = old THEN new ELSE <<Head(s)>>)
         \o Replace(Tail(s), old, new)

\* position of the last ch in s (0 when there is none)
LastIndex(s, ch) ==
    IF \E i \in 1..Len(s) : s[i] = ch
    THEN CHOOSE i \in 1..Len(s) :
            s[i] = ch /\ \A j \in (i + 1)..Len(s) : s[j] # ch
    ELSE 0

\* fault: a pattern without a wildcard is used as the path itself
GenePath_NoGene(pattern, g) ==
    IF "*" \in Range(pattern) THEN Replace(pattern, "*", g) ELSE pattern

\* the output path of the plot of gene g
GenePath(pattern, g) ==
    IF "*" \in Range(pattern)
    THEN Replace(pattern, "*", g)
    ELSE IF "." \in Range(pattern)
    THEN LET k == LastIndex(pattern, ".")
             base == SubSeq(pattern, 1, k - 1)
             ext == SubSeq(pattern, k + 1, Len(pattern))
         IN base \o <<"_">> \o g \o <<".">> \o ext
    ELSE pattern \o <<"_">> \o g \o <<".", "p", "d", "f">>

\* config.gene_out_pattern or "spatial_scatter_*.pdf"
PatternOrDefault(pattern) ==
    IF pattern = <<>> THEN DefaultGenePattern ELSE pattern

\* plt.close(): the current figure
CloseCurrent(n) == IF n > 0 THEN n - 1 ELSE 0

\* fault: the finally clause closes nothing
CloseAll_Noop(n) == n

\* plt.close("all") in the finally clause
CloseAll(n) == 0

NoPlotFiles == [cell |-> <<>>, gene |-> <<>>]

\* the except and finally clauses: wrap the error, close every figure
PlotRaise(figs) ==
    /\ Raise("plot", <<>>)
    /\ open_figs' = CloseAll(figs)

\* normal return, through the finally clause
PlotReturn(figs) ==
    /\ pc' = "done"
    /\ open_figs' = CloseAll(figs)
    /\ UNCHANGED error

\* fault: the except clause removes the files written so far
KeepSaved_Rollback(files) == <<>>

\* the except clause deletes nothing: files written before the failure stay
KeepSaved(files) == files

\* fault: gene plots are made whatever the plot type
WantsGenePlots_Always(plot_type) == TRUE

\* config.plot_type in ("cell", "both") / in ("gene", "both")
WantsCellPlot(plot_type) == plot_type \in {"cell", "both"}
WantsGenePlots(plot_type) == plot_type \in {"gene", "both"}

\* fault: an empty gene list is not skipped
NoGenesRequested_Never(gs) == FALSE

\* `if not genes`: the soft skip
NoGenesRequested(gs) == gs = <<>>

\* fault: the check for an empty valid list is missing
NoValidGenes_Never(v) == FALSE

\* `if not valid_genes`: the hard error
NoValidGenes(v) == v.valid = <<>>

\* outcomes of one plot: all fine, or the render, savefig or show call raises
PlotOutcomes == {"ok", "render_fail", "save_fail", "show_fail"}

\* savefig has written the file
Wrote(outcome) == outcome \in {"ok", "show_fail"}

\* figures the failed plot had opened: the render call may fail before or
\* after it created its figure
OpenedAtFailure(outcome) == IF outcome = "render_fail" THEN {0, 1} ELSE {1}

\* 1) the cell-level plot
PlotCell ==
    /\ pc = "plot"
    /\ IF WantsCellPlot(config.plot_type)
       THEN \E outcome \in PlotOutcomes :
            LET saved_now == IF Wrote(outcome)
                             THEN Append(saved, config.out_pdf) ELSE saved
                files_now == IF Wrote(outcome)
                             THEN [plot_files EXCEPT
                                     !.cell = Append(@, config.out_pdf)]
                             ELSE plot_files
            IN IF outcome = "ok"
               THEN /\ saved' = saved_now
                    /\ plot_files' = files_now
                    /\ open_figs' = CloseCurrent(open_figs + 1)
                    /\ pc' = "plot_gene"
                    /\ UNCHANGED error
               ELSE /\ \E opened \in OpenedAtFailure(outcome) :
                           PlotRaise(open_figs + opened)
                    /\ saved' = KeepSaved(saved_now)
                    /\ plot_files' = files_now
       ELSE /\ pc' = "plot_gene"
            /\ UNCHANGED <<saved, plot_files, open_figs, error>>
    /\ UNCHANGED <<config, data, ref, res, tried, calls, method_used,
                   filter_calls, valid_genes, gi>>
    /\ UNCHANGED geneVars
    /\ UNCHANGED legacyVars

\* 2) the gene-level plots: resolve the gene list
PlotGenesBegin ==
    /\ pc = "plot_gene"
    /\ IF WantsGenePlots(config.plot_type)
       THEN LET gs == ParseGeneList(config.gene) IN
            IF NoGenesRequested(gs)
            THEN /\ PlotReturn(open_figs)
                 /\ UNCHANGED <<valid_genes, gi>>
            ELSE LET v == ValidateGenes(data, gs) IN
                 IF v.raised \/ NoValidGenes(v)
                 THEN /\ PlotRaise(open_figs)
                      /\ UNCHANGED <<valid_genes, gi>>
                 ELSE /\ valid_genes' = v.valid
                      /\ gi' = 1
                      /\ pc' = "plot_gene_loop"
                      /\ UNCHANGED <<open_figs, error>>
       ELSE /\ PlotReturn(open_figs)
            /\ UNCHANGED <<valid_genes, gi>>
    /\ saved' = (IF pc' = "failed" THEN KeepSaved(saved) ELSE saved)
    /\ UNCHANGED <<config, data, ref, res, tried, calls, method_used,
                   filter_calls, plot_files>>
    /\ UNCHANGED geneVars
    /\ UNCHANGED legacyVars

\* one iteration of `for g in valid_genes`
PlotGene ==
    /\ pc = "plot_gene_loop"
    /\ gi <= Len(valid_genes)
    /\ LET g == valid_genes[gi]
           out_gene_pdf == GenePath(PatternOrDefault(config.gene_out_pattern), g)
       IN \E outcome \in PlotOutcomes :
            LET saved_now == IF Wrote(outcome)
                             THEN Append(saved, out_gene_pdf) ELSE saved
                files_now == IF Wrote(outcome)
                             THEN [plot_files EXCEPT
                                     !.gene = Append(@, out_gene_pdf)]
                             ELSE plot_files
            IN IF outcome = "ok"
               THEN /\ saved' = saved_now
                    /\ plot_files' = files_now
                    /\ IF gi = Len(valid_genes)
                       THEN /\ PlotReturn(CloseCurrent(open_figs + 1))
                            /\ UNCHANGED gi
                       ELSE /\ open_figs' = CloseCurrent(open_figs + 1)
                            /\ gi' = gi + 1
                            /\ UNCHANGED <<pc, error>>
               ELSE /\ \E opened \in OpenedAtFailure(outcome) :
                           PlotRaise(open_figs + opened)
                    /\ saved' = KeepSaved(saved_now)
                    /\ plot_files' = files_now
                    /\ UNCHANGED gi
    /\ UNCHANGED <<config, data, ref, res, tried, calls, method_used,
                   filter_calls, valid_genes>>
    /\ UNCHANGED geneVars
    /\ UNCHANGED legacyVars

----------------------------------------------------------------------------
(* run_annotation_with_info: one run *)

Init ==
    /\ pc = "load_main"
    /\ LegacyIdle
    /\ config \in Configs
    /\ data = NoData
    /\ ref = NoRef
    /\ res = NoRes
    /\ tried = <<>>
    /\ calls = <<>>
    /\ method_used = "none"
    /\ filter_calls = <<>>
    /\ plot_files = NoPlotFiles
    /\ saved = <<>>
    /\ open_figs = 0
    /\ valid_genes = <<>>
    /\ gi = 0
    /\ error = NoError
    /\ gene_str = NoneStr
    /\ genes = <<>>
    /\ reparsed = <<>>
    /\ validated = <<>>
    /\ gpc = "off"

Next ==
    \/ LoadMainData
    \/ LoadAndPreprocessRef
    \/ SinglerFirstAttempt
    \/ SinglerFallbackAttempt
    \/ FilterByRegion
    \/ PlotCell
    \/ PlotGenesBegin
    \/ PlotGene

Spec == Init /\ [][Next]_vars

----------------------------------------------------------------------------
(* The gene-list resolver on its own *)

Alphabet == {"a", "b", ",", ";", " "}

\* arguments of _parse_gene_list
GeneStrings == {NoneStr} \cup {Str(s) : s \in SeqsUpTo(Alphabet, MaxStrLen)}

\* arguments of _validate_genes
GeneNames == {GeneA, GeneB, GeneAB}
GeneLists == SeqsUpTo(GeneNames, MaxGenes)
Vocabularies == { <<>>, <<GeneA>>, <<GeneA, GeneB>>, <<GeneB, GeneAB>>,
                  <<GeneA, GeneA>> }

NoReparsed == [sep |-> "", joined |-> <<>>, result |-> <<>>]
NoValidated == [raised |-> FALSE, valid |-> <<>>, invalid |-> <<>>]

IdleConfig ==
    [ref_path |-> RawRef, method |-> "rapids", data_region |-> "eye",
     plot_type |-> "cell",
     gene |-> NoneStr, gene_out_pattern |-> <<>>, out_pdf |-> OutPdf,
     extra |-> {}]

InitGenes ==
    /\ pc = "off"
    /\ LegacyIdle
    /\ config = IdleConfig
    /\ ref = NoRef
    /\ res = NoRes
    /\ tried = <<>>
    /\ calls = <<>>
    /\ method_used = "none"
    /\ filter_calls = <<>>
    /\ plot_files = NoPlotFiles
    /\ saved = <<>>
    /\ open_figs = 0
    /\ valid_genes = <<>>
    /\ gi = 0
    /\ error = NoError
    /\ reparsed = NoReparsed
    /\ validated = NoValidated
    /\ \/ /\ gpc = "parse"
          /\ gene_str \in GeneStrings
          /\ genes = <<>>
          /\ data = NoData
       \/ /\ gpc = "validate"
          /\ gene_str = NoneStr
          /\ genes \in GeneLists
          /\ \E gene_names \in Vocabularies, gene_names_ok \in BOOLEAN :
                data = ReadStereo(<<>>, gene_names, gene_names_ok)

\* genes = _parse_gene_list(gene_str)
ParseStep ==
    /\ gpc = "parse"
    /\ genes' = ParseGeneList(gene_str)
    /\ gpc' = "parsed"
    /\ UNCHANGED <<gene_str, reparsed, validated>>
    /\ UNCHANGED <<pc, config, data, ref, res, tried, calls, method_used,
                   filter_calls, plotVars, error>>
    /\ UNCHANGED legacyVars

\* _parse_gene_list(sep.join(genes))
RejoinStep ==
    /\ gpc = "parsed"
    /\ \E sep \in Delimiters :
        LET joined == Join(genes, sep) IN
        reparsed' = [sep |-> sep, joined |-> joined,
                     result |-> ParseGeneList(Str(joined))]
    /\ gpc' = "rejoined"
    /\ UNCHANGED <<gene_str, genes, validated>>
    /\ UNCHANGED <<pc, config, data, ref, res, tried, calls, method_used,
                   filter_calls, plotVars, error>>
    /\ UNCHANGED legacyVars

\* valid, invalid = _validate_genes(data, genes)
ValidateStep ==
    /\ gpc = "validate"
    /\ validated' = ValidateGenes(data, genes)
    /\ gpc' = "validated"
    /\ UNCHANGED <<gene_str, genes, reparsed>>
    /\ UNCHANGED <<pc, config, data, ref, res, tried, calls, method_used,
                   filter_calls, plotVars, error>>
    /\ UNCHANGED legacyVars

NextGenes ==
    \/ ParseStep
    \/ RejoinStep
    \/ ValidateStep

SpecGenes == InitGenes /\ [][NextGenes]_vars

----------------------------------------------------------------------------
(* Properties of _run_singler *)

\* the methods of the single_r calls made so far, in order
CalledMethods == [i \in 1..Len(calls) |-> calls[i].method]

\* _run_singler has returned normally
SinglerReturned == method_used # "none"

\* C1: a second label-transfer call is made only after a first call that
\* failed with a message containing the RAPIDS signature, in a run whose
\* preferred backend is rapids (in any letter case); a cpu preference, and any
\* other first failure, ends with one call.
C1_FallbackOnlyOnSignature ==
    /\ (Len(calls) >= 2 \/ pc = "singler_fallback") =>
          /\ ~calls[1].ok
          /\ Contains(calls[1].msg, RapidsSignature)
          /\ config.method \in {"rapids", "RAPIDS"}
    /\ config.method = "cpu" => Len(calls) <= 1 /\ pc # "singler_fallback"

C1_Witness ==
    /\ Len(calls) = 2
    /\ config.method = "rapids"
    /\ calls[2].method = "cpu"

\* C2: one run calls single_r at most twice; a second call uses cpu and
\* comes after a failed first call.
C2_AtMostTwoAttempts ==
    /\ Len(calls) <= 2
    /\ Len(tried) = Len(calls)
    /\ Len(calls) = 2 => calls[2].method = "cpu" /\ ~calls[1].ok
    /\ pc = "singler_fallback" => Len(calls) = 1

C2_Witness ==
    /\ Len(calls) = 2
    /\ ~calls[1].ok
    /\ ~calls[2].ok
    /\ pc = "failed"

\* C3: the value _run_singler returns is the backend of the call that
\* succeeded: the preferred one after one call, cpu after a fallback.
C3_ReturnsBackendThatRan ==
    SinglerReturned =>
        /\ calls # <<>>
        /\ calls[Len(calls)].ok
        /\ method_used = calls[Len(calls)].method
        /\ Len(calls) = 1 => method_used = config.method
        /\ Len(calls) = 2 =>
              /\ method_used = "cpu"
              /\ ~calls[1].ok
              /\ Contains(calls[1].msg, RapidsSignature)

C3_Witness ==
    /\ SinglerReturned
    /\ Len(calls) = 2
    /\ config.method = "rapids"
    /\ method_used = "cpu"

\* C4: once the last call has failed and no retry is pending, the run has
\* ended with an AnnotationError that names every backend called, and
\* _run_singler has not returned.
C4_FailureIsAnnotationError ==
    (calls # <<>> /\ ~calls[Len(calls)].ok /\ pc # "singler_fallback") =>
        /\ pc = "failed"
        /\ error.kind = "AnnotationError"
        /\ error.stage = "singler"
        /\ error.backends = CalledMethods
        /\ ~SinglerReturned

C4_Witness ==
    /\ pc = "failed"
    /\ Len(calls) = 2
    /\ error.backends = <<"rapids", "cpu">>

----------------------------------------------------------------------------
(* Properties of _filter_by_region *)

\* rows of the clustering table whose cluster the map sends to region
RowsOfRegion(region) ==
    {i \in 1..Len(res.rows) :
        /\ res.rows[i].group \in DOMAIN CLUSTER_TO_LOCATION
        /\ CLUSTER_TO_LOCATION[res.rows[i].group] = region}

\* rows whose cluster has no entry in the map, or the entry "unknown"
UnknownRows ==
    {i \in 1..Len(res.rows) :
        \/ res.rows[i].group \notin DOMAIN CLUSTER_TO_LOCATION
        \/ CLUSTER_TO_LOCATION[res.rows[i].group] = "unknown"}

\* C5: the list handed to filter_cells for retina or cornea holds exactly
\* the bins of the rows whose cluster maps to that region, and no bin of an
\* unmapped or "unknown" cluster.
C5_FilterKeepsExactlyRegion ==
    \A k \in 1..Len(filter_calls) :
        LET bins == filter_calls[k] IN
        /\ config.data_region \in {"retina", "cornea"}
        /\ Range(bins) = {res.rows[i].bins : i \in RowsOfRegion(config.data_region)}
        /\ Len(bins) = Cardinality(RowsOfRegion(config.data_region))
        /\ \A i \in UnknownRows : res.rows[i].bins \notin Range(bins)
        /\ \A i \in 1..Len(res.rows) :
              MapLocation(res.rows[i].group) # config.data_region =>
                  res.rows[i].bins \notin Range(bins)

C5_Witness ==
    /\ config.data_region = "retina"
    /\ Len(filter_calls) = 1
    /\ Len(res.rows) = 2
    /\ res.rows[1].group = "51"
    /\ res.rows[2].group = "6"
    /\ filter_calls[1] = <<2>>

PlotStages == {"plot", "plot_gene", "plot_gene_loop", "done"}

\* C6: with a region other than eye and no phenograph result, the run never
\* calls filter_cells, never reaches plotting, and once the filter stage has
\* run it has ended with the filter's AnnotationError.
C6_MissingPhenographFails ==
    (config.data_region # "eye" /\ data.loaded /\ ~res.present) =>
        /\ filter_calls = <<>>
        /\ pc \notin PlotStages
        /\ saved = <<>>
        /\ plot_files = NoPlotFiles
        /\ (SinglerReturned /\ pc # "filter") =>
              /\ pc = "failed"
              /\ error.kind = "AnnotationError"
              /\ error.stage = "filter"

C6_Witness ==
    /\ config.data_region = "retina"
    /\ ~res.present
    /\ SinglerReturned
    /\ pc = "failed"
    /\ error.stage = "filter"

\* C7: for region eye the filter step changes neither the dataset nor the
\* clustering table, calls nothing, raises nothing and goes on to plotting.
C7_EyeIsNoOp ==
    [][(pc = "filter" /\ config.data_region = "eye") =>
          /\ pc' = "plot"
          /\ data' = data
          /\ res' = res
          /\ filter_calls' = filter_calls
          /\ error' = error]_vars

C7_Witness ==
    /\ config.data_region = "eye"
    /\ pc = "plot"
    /\ ~res.present
    /\ data.cells # {}

----------------------------------------------------------------------------
(* Properties of _parse_gene_list *)

\* the tokens of s between its commas and semicolons, by position
Cuts(s) == {0, Len(s) + 1} \cup {i \in 1..Len(s) : s[i] \in {",", ";"}}

NextCut(s, c) == CHOOSE d \in Cuts(s) :
                    d > c /\ \A e \in Cuts(s) : e > c => d <= e

Token(s, c) == SubSeq(s, c + 1, NextCut(s, c) - 1)

\* t without its leading and trailing blanks
Trimmed(t) ==
    LET ink == {i \in 1..Len(t) : t[i] \notin Whitespace} IN
    IF ink = {} THEN <<>>
    ELSE SubSeq(t, CHOOSE i \in ink : \A j \in ink : i <= j,
                   CHOOSE i \in ink : \A j \in ink : i >= j)

\* the cuts that start a non-empty token not seen at an earlier cut
FirstSeen(s) ==
    {c \in Cuts(s) \ {Len(s) + 1} :
        /\ Trimmed(Token(s, c)) # <<>>
        /\ \A b \in Cuts(s) \ {Len(s) + 1} :
              b < c => Trimmed(Token(s, b)) # Trimmed(Token(s, c))}

\* the k-th smallest element of a set of numbers
Nth(S, k) == CHOOSE c \in S : Cardinality({b \in S : b < c}) = k - 1

ExpectedGenes(o) ==
    IF o.isNone THEN <<>>
    ELSE [k \in 1..Cardinality(FirstSeen(o.val)) |->
            Trimmed(Token(o.val, Nth(FirstSeen(o.val), k)))]

\* C8: _parse_gene_list returns the trimmed, non-empty tokens between the
\* commas and semicolons of its input, first occurrences only, in input
\* order; None and "" give the empty list.
C8_ParseGeneList ==
    gpc \in {"parsed", "rejoined"} =>
        /\ genes = ExpectedGenes(gene_str)
        /\ Falsy(gene_str) => genes = <<>>

C8_Witness ==
    /\ gpc = "parsed"
    /\ gene_str = Str(<<" ", "a", ",", "a", ";">>)
    /\ genes = <<GeneA>>

NoDuplicates(list) ==
    \A i, j \in 1..Len(list) : list[i] = list[j] => i = j

\* C9: parsing the result joined by a comma or a semicolon gives the result
\* again, and the result holds no gene twice.
C9_ParseIdempotent ==
    /\ gpc \in {"parsed", "rejoined"} => NoDuplicates(genes)
    /\ gpc = "rejoined" => reparsed.result = genes

C9_Witness ==
    /\ gpc = "rejoined"
    /\ gene_str = Str(<<"a", ",", "a", ",", "b">>)
    /\ genes = <<GeneA, GeneB>>
    /\ reparsed.joined = <<"a", ",", "b">>

----------------------------------------------------------------------------
(* Properties of _validate_genes *)

InVocabulary(g) == \E i \in 1..Len(data.gene_names) : data.gene_names[i] = g

\* how many of the first i genes are in the vocabulary
ValidUpTo(i) == Cardinality({j \in 1..i : InVocabulary(genes[j])})

\* C10: _validate_genes splits its list into the genes the vocabulary holds
\* and those it lacks, each in input order; it raises only when the gene
\* names cannot be read, never because a gene is invalid.
C10_ValidatePartitions ==
    gpc = "validated" =>
        /\ validated.raised <=> (genes # <<>> /\ ~data.gene_names_ok)
        /\ ~validated.raised =>
              /\ Len(validated.valid) + Len(validated.invalid) = Len(genes)
              /\ Len(validated.valid) = ValidUpTo(Len(genes))
              /\ \A i \in 1..Len(genes) :
                    IF InVocabulary(genes[i])
                    THEN /\ ValidUpTo(i) <= Len(validated.valid)
                         /\ validated.valid[ValidUpTo(i)] = genes[i]
                         /\ genes[i] \notin Range(validated.invalid)
                    ELSE /\ i - ValidUpTo(i) <= Len(validated.invalid)
                         /\ validated.invalid[i - ValidUpTo(i)] = genes[i]
                         /\ genes[i] \notin Range(validated.valid)

C10_Witness ==
    /\ gpc = "validated"
    /\ ~validated.raised
    /\ genes = <<GeneAB, GeneA, GeneAB>>
    /\ validated.valid = <<GeneA>>
    /\ validated.invalid = <<GeneAB, GeneAB>>

----------------------------------------------------------------------------
(* _plot_and_save on its own: entered with an annotated dataset *)

\* config.gene: None, "", " ,;", "c", "a", "a;b", "a;c;b", "a b;a"
PlotSelectors ==
    { NoneStr, Str(<<>>), Str(<<" ", ",", ";">>), Str(<<"c">>), Str(<<"a">>),
      Str(<<"a", ";", "b">>), Str(<<"a", ";", "c", ";", "b">>),
      Str(<<"a", " ", "b", ";", "a">>) }

\* config.gene_out_pattern: "", "s*.p", "*-*", "o.p", "o", "./o", "r.v/o",
\* "d.e/o.p"
PlotPatterns ==
    { <<>>, <<"s", "*", ".", "p">>, <<"*", "-", "*">>, <<"o", ".", "p">>,
      <<"o">>, <<".", "/", "o">>, <<"r", ".", "v", "/", "o">>,
      <<"d", ".", "e", "/", "o", ".", "p">> }

\* data.gene_names
PlotVocabularies == { <<GeneA, GeneB, GeneAB>>, <<GeneB>> }

PlotConfigs ==
    [ref_path : {RawRef}, method : {"cpu"}, data_region : {"eye"},
     plot_type : {"cell", "gene", "both"}, gene : PlotSelectors,
     gene_out_pattern : PlotPatterns, out_pdf : {OutPdf}, extra : {{}}]

\* the state in which run_annotation_with_info calls _plot_and_save
InitPlot ==
    /\ pc = "plot"
    /\ LegacyIdle
    /\ config \in PlotConfigs
    /\ \E gene_names \in PlotVocabularies, gene_names_ok \in BOOLEAN :
          data = [ReadStereo(<<>>, gene_names, gene_names_ok)
                    EXCEPT !.annotation = TRUE]
    /\ ref = PreprocessRef(config.ref_path, "ok")
    /\ res = NoRes
    /\ tried = <<"cpu">>
    /\ calls = <<Call("cpu", TRUE, <<>>)>>
    /\ method_used = "cpu"
    /\ filter_calls = <<>>
    /\ plot_files = NoPlotFiles
    /\ saved = <<>>
    /\ open_figs = 0
    /\ valid_genes = <<>>
    /\ gi = 0
    /\ error = NoError
    /\ gene_str = NoneStr
    /\ genes = <<>>
    /\ reparsed = NoReparsed
    /\ validated = NoValidated
    /\ gpc = "off"

NextPlot ==
    \/ PlotCell
    \/ PlotGenesBegin
    \/ PlotGene

SpecPlot == InitPlot /\ [][NextPlot]_vars

----------------------------------------------------------------------------
(* Properties of _plot_and_save *)

\* the gene names the selector resolves to, and those of them the dataset has
RequestedGenes == ExpectedGenes(config.gene)
RequestedValid == SelectSeq(RequestedGenes, InVocabulary)

GenePlotsWanted == config.plot_type \in {"gene", "both"}

\* C11: with plot type gene or both, a selector that names at least one gene
\* and no gene of the dataset ends the plotting with an AnnotationError; no
\* gene plot is saved or listed.
C11_NoValidGeneIsHardError ==
    (GenePlotsWanted /\ RequestedGenes # <<>> /\ RequestedValid = <<>>) =>
        /\ pc \in {"plot", "plot_gene", "failed"}
        /\ pc = "failed" => error.kind = "AnnotationError" /\ error.stage = "plot"
        /\ plot_files.gene = <<>>
        /\ \A i \in 1..Len(saved) : saved[i] = config.out_pdf

C11_Witness ==
    /\ pc = "failed"
    /\ config.plot_type = "both"
    /\ config.gene = Str(<<"c">>)
    /\ data.gene_names_ok
    /\ saved = <<OutPdf>>

\* C12: with plot type gene, an absent selector or one that resolves to no
\* gene lets the plotting return without error, with no path listed and no
\* file saved.
C12_NoGeneIsSoftSkip ==
    (config.plot_type = "gene" /\ RequestedGenes = <<>>) =>
        /\ pc \in {"plot", "plot_gene", "done"}
        /\ error = NoError
        /\ plot_files = NoPlotFiles
        /\ saved = <<>>

C12_Witness ==
    /\ pc = "done"
    /\ config.plot_type = "gene"
    /\ config.gene = Str(<<" ", ",", ";">>)

\* C13: with plot type cell, a plotting that returns has saved one file, the
\* one at out_pdf, and lists that path as the only cell plot and no gene
\* plot, whatever the selector.
C13_CellModeOneFile ==
    (config.plot_type = "cell" /\ pc = "done") =>
        /\ saved = <<config.out_pdf>>
        /\ plot_files = [cell |-> <<config.out_pdf>>, gene |-> <<>>]

C13_Witness ==
    /\ pc = "done"
    /\ config.plot_type = "cell"
    /\ config.gene = Str(<<"a", ";", "c", ";", "b">>)
    /\ saved = <<OutPdf>>

\* the pattern the gene plots are named after
UsedPattern ==
    IF config.gene_out_pattern = <<>> THEN DefaultGenePattern
    ELSE config.gene_out_pattern

\* number of wildcards among the first i characters of pattern
StarsUpTo(pattern, i) == Cardinality({j \in 1..i : pattern[j] = "*"})

\* where the text for pattern[i] starts in the path, less one
OffsetOf(pattern, g, i) ==
    (i - 1) + (Len(g) - 1) * StarsUpTo(pattern, i - 1)

\* path is pattern with each wildcard spelled out as g, all else in place
IsWildcardPath(path, pattern, g) ==
    /\ Len(path) = Len(pattern) + (Len(g) - 1) * StarsUpTo(pattern, Len(pattern))
    /\ \A i \in 1..Len(pattern) :
          IF pattern[i] = "*"
          THEN SubSeq(path, OffsetOf(pattern, g, i) + 1,
                      OffsetOf(pattern, g, i) + Len(g)) = g
          ELSE path[OffsetOf(pattern, g, i) + 1] = pattern[i]

\* C14: with a wildcard in the pattern, the path of each gene plot is the
\* pattern with every wildcard replaced by the gene name.
C14_WildcardPath ==
    (\E i \in 1..Len(UsedPattern) : UsedPattern[i] = "*") =>
        /\ Len(plot_files.gene) <= Len(valid_genes)
        /\ \A k \in 1..Len(plot_files.gene) :
              /\ IsWildcardPath(plot_files.gene[k], UsedPattern, valid_genes[k])
              /\ plot_files.gene[k] \in Range(saved)

C14_Witness ==
    /\ pc = "done"
    /\ config.gene_out_pattern = <<"*", "-", "*">>
    /\ plot_files.gene = << <<"a", " ", "b", "-", "a", " ", "b">>,
                            <<"a", "-", "a">> >>

\* largest element of a set of numbers, 0 for the empty set
MaxOf(S) == IF S = {} THEN 0 ELSE CHOOSE i \in S : \A j \in S : i >= j

\* the path for a pattern without wildcard: "_g" goes before the extension
\* of the file name, the part after the last "/"; without one, "_g.pdf" is
\* appended
ExtensionPath(pattern, g) ==
    LET slash == MaxOf({i \in 1..Len(pattern) : pattern[i] = "/"})
        dot == MaxOf({i \in (slash + 1)..Len(pattern) : pattern[i] = "."})
    IN IF dot # 0
       THEN SubSeq(pattern, 1, dot - 1) \o <<"_">> \o g
            \o SubSeq(pattern, dot, Len(pattern))
       ELSE pattern \o <<"_">> \o g \o <<".", "p", "d", "f">>

\* C15: without a wildcard, the path of each gene plot has "_g" before the
\* extension of the pattern's file name, or "_g.pdf" appended when the file
\* name has no extension, dots in the directory part not counting.
C15_ExtensionPath ==
    (\A i \in 1..Len(UsedPattern) : UsedPattern[i] # "*") =>
        \A k \in 1..Len(plot_files.gene) :
            plot_files.gene[k] = ExtensionPath(UsedPattern, valid_genes[k])

\* C16: with plot type both and at least one requested gene in the dataset,
\* a plotting that returns lists one cell plot and one gene plot per valid
\* requested gene, in request order; the other requested genes add nothing.
C16_BothModeLists ==
    (config.plot_type = "both" /\ RequestedValid # <<>> /\ pc = "done") =>
        /\ Len(plot_files.cell) = 1
        /\ Len(plot_files.gene) = Len(RequestedValid)
        /\ \A k \in 1..Len(RequestedValid) :
              k <= Len(plot_files.gene) =>
                  plot_files.gene[k] = GenePath(UsedPattern, RequestedValid[k])
        /\ error = NoError

C16_Witness ==
    /\ pc = "done"
    /\ config.plot_type = "both"
    /\ config.gene = Str(<<"a", ";", "c", ";", "b">>)
    /\ Len(plot_files.cell) = 1
    /\ Len(plot_files.gene) = 2

\* C17: when _plot_and_save has returned or raised, no figure is open, and
\* what it raised is an AnnotationError.
C17_FiguresReleased ==
    pc \in {"done", "failed"} =>
        /\ open_figs = 0
        /\ pc = "failed" => error.kind = "AnnotationError" /\ error.stage = "plot"

C17_Witness ==
    /\ pc = "failed"
    /\ config.plot_type = "both"
    /\ Len(valid_genes) = 2
    /\ gi = 2
    /\ Len(saved) = 2
    /\ open_figs = 0

IsPrefix(a, b) == Len(a) <= Len(b) /\ SubSeq(b, 1, Len(a)) = a

\* C19: the list of saved files only grows; a failure in the gene loop ends
\* the run at that gene, with the files of the earlier plots still saved,
\* and nothing is plotted after a failure.
C19_AbortKeepsSavedFiles ==
    [][/\ IsPrefix(saved, saved')
       /\ (pc = "plot_gene_loop" /\ pc' = "failed") =>
             /\ gi' = gi
             /\ Len(saved') \in {Len(saved), Len(saved) + 1}
             /\ Len(plot_files'.gene) \in {gi - 1, gi}
             /\ IsPrefix(plot_files.gene, plot_files'.gene)
             /\ plot_files'.cell = plot_files.cell
       /\ pc = "failed" => (pc' = "failed" /\ saved' = saved)]_vars

C19_Witness ==
    /\ pc = "failed"
    /\ config.plot_type = "both"
    /\ config.gene_out_pattern = <<"o", ".", "p">>
    /\ valid_genes = <<GeneA, GeneB>>
    /\ gi = 2
    /\ saved = <<OutPdf, <<"o", "_", "a", ".", "p">> >>

----------------------------------------------------------------------------
(* Properties of run_annotation_with_info *)

\* the stage a position belongs to
StageOf(p) ==
    CASE p = "load_main" -> "load_main"
      [] p = "load_ref" -> "load_ref"
      [] p \in {"singler", "singler_fallback"} -> "singler"
      [] p = "filter" -> "filter"
      [] p \in {"plot", "plot_gene", "plot_gene_loop"} -> "plot"
      [] OTHER -> "none"

\* the order of the stages
StageRank(p) ==
    CASE p = "load_main" -> 1
      [] p = "load_ref" -> 2
      [] p \in {"singler", "singler_fallback"} -> 3
      [] p = "filter" -> 4
      [] p \in {"plot", "plot_gene", "plot_gene_loop"} -> 5
      [] p = "done" -> 6
      [] OTHER -> 7

\* C18: a run goes through loading the main data, loading the reference,
\* label transfer, filtering and plotting in this order, each stage entered
\* once and only from the successful end of the stage before it; a stage
\* that fails ends the run with its own error and nothing runs after that.
C18_StageOrder ==
    [][/\ pc # "failed" /\ pc # "done"
       /\ pc' # "failed" =>
             /\ StageRank(pc') \in {StageRank(pc), StageRank(pc) + 1}
             /\ pc' = pc => pc = "plot_gene_loop"
             /\ pc = "singler_fallback" => pc' # "singler"
             /\ error' = NoError
       /\ pc' = "failed" =>
             /\ error'.kind = "AnnotationError"
             /\ error'.stage = StageOf(pc)
       /\ pc' = "load_ref" => data'.loaded
       /\ pc' = "singler" => ref'.loaded /\ ref'.normalized = 1 /\ ref'.log1p = 1
       /\ pc' = "filter" => data'.annotation /\ method_used' # "none"
       /\ pc' = "plot" => (config.data_region = "eye" \/ Len(filter_calls') = 1)
       /\ StageRank(pc) < 5 => (saved' = <<>> /\ plot_files' = NoPlotFiles)
       /\ StageRank(pc) < 4 => filter_calls' = <<>>
       /\ StageRank(pc) < 3 => calls' = <<>>]_vars

C18_Witness ==
    /\ pc = "done"
    /\ Len(calls) = 2
    /\ Len(filter_calls) = 1
    /\ Len(saved) = 2
    /\ ref.log1p = 1

\* C24: within one plotting stage two different valid genes never get the
\* same output path, whatever the pattern: the gene list holds no path twice.
C24_GenePathsDistinct ==
    /\ NoDuplicates(plot_files.gene)
    /\ NoDuplicates(valid_genes)
    /\ \A i, j \in 1..Len(valid_genes) :
          i # j => GenePath(UsedPattern, valid_genes[i]) #
                   GenePath(UsedPattern, valid_genes[j])

C24_Witness ==
    /\ pc = "done"
    /\ config.gene_out_pattern = <<"o">>
    /\ valid_genes = <<GeneAB, GeneA>>
    /\ Len(plot_files.gene) = 2

----------------------------------------------------------------------------
(* Runs whose caller has set preloaded datasets on the config *)

PreloadConfigs ==
    [ref_path : {RawRef}, method : {"rapids"}, data_region : {"retina"},
     plot_type : {"both"},
     gene : {Str(<<"a", ";", "c">>)}, gene_out_pattern : {<<>>},
     out_pdf : {OutPdf}, extra : SUBSET ExtraAttributes]

InitPreload ==
    /\ pc = "load_main"
    /\ LegacyIdle
    /\ config \in PreloadConfigs
    /\ data = NoData
    /\ ref = NoRef
    /\ res = NoRes
    /\ tried = <<>>
    /\ calls = <<>>
    /\ method_used = "none"
    /\ filter_calls = <<>>
    /\ plot_files = NoPlotFiles
    /\ saved = <<>>
    /\ open_figs = 0
    /\ valid_genes = <<>>
    /\ gi = 0
    /\ error = NoError
    /\ gene_str = NoneStr
    /\ genes = <<>>
    /\ reparsed = NoReparsed
    /\ validated = NoValidated
    /\ gpc = "off"

SpecPreload == InitPreload /\ [][Next]_vars

\* C20: a run given a preloaded main or reference dataset works on a copy of
\* it and does not read that dataset from disk.
C20_PreloadedNotReread ==
    /\ ("preloaded_main_dataset" \in config.extra /\ data.loaded) =>
          data.source # "disk"
    /\ ("preloaded_reference_dataset" \in config.extra /\ ref.loaded) =>
          ref.source # "disk"

----------------------------------------------------------------------------
(* Runs on a reference file that was processed before *)

RefConfigs ==
    [ref_path : RefPaths, method : {"rapids"}, data_region : {"eye", "retina"},
     plot_type : {"cell", "both"}, gene : {Str(<<"a", ";", "c">>)},
     gene_out_pattern : {<<>>}, out_pdf : {OutPdf}, extra : {{}}]

InitRef ==
    /\ pc = "load_main"
    /\ LegacyIdle
    /\ config \in RefConfigs
    /\ data = NoData
    /\ ref = NoRef
    /\ res = NoRes
    /\ tried = <<>>
    /\ calls = <<>>
    /\ method_used = "none"
    /\ filter_calls = <<>>
    /\ plot_files = NoPlotFiles
    /\ saved = <<>>
    /\ open_figs = 0
    /\ valid_genes = <<>>
    /\ gi = 0
    /\ error = NoError
    /\ gene_str = NoneStr
    /\ genes = <<>>
    /\ reparsed = NoReparsed
    /\ validated = NoValidated
    /\ gpc = "off"

SpecRef == InitRef /\ [][Next]_vars

\* the reference stage has returned its reference to the run
RefReturned == ref.loaded /\ pc \notin {"load_main", "load_ref", "failed"}

\* C21: reference loading normalizes and then log-transforms a reference
\* that carries no marker of prior processing, and returns a reference that
\* carries the marker without normalizing or log-transforming it again.
C21_ProcessedNotRepeated ==
    /\ (RefReturned /\ ~ref.marked) => (ref.normalized = 1 /\ ref.log1p = 1)
    /\ (ref.loaded /\ ref.marked) => (ref.normalized = 0 /\ ref.log1p = 0)

----------------------------------------------------------------------------
(* Runs on a config built by the dataclass constructor *)

\* the default of plot_type: the field's line ends in a comma, so the default
\* is the one-element tuple ("cell",), written here as its repr; it equals
\* none of the strings "cell", "gene", "both"
DefaultPlotType == "('cell',)"

\* the defaults of method and gene
DefaultMethod == "rapids"
DefaultGene == NoneStr

\* keyword arguments of a constructor call: `given` names the optional
\* fields the caller passes, the other fields take their defaults
Keywords ==
    [given : SUBSET {"plot_type", "gene"},
     plot_type : {"cell", "gene", "both"},
     gene : {Str(<<"a", ";", "c">>)}]

NoKeywords == [given |-> {}, plot_type |-> "cell", gene |-> Str(<<"a", ";", "c">>)]

\* AnnotationConfig(ref_path, ref_used_col, data_region, **kw); out_pdf is
\* the default cell-plot path
AnnotationConfig(ref_path, data_region, kw) ==
    [ref_path |-> ref_path,
     method |-> DefaultMethod,
     data_region |-> data_region,
     plot_type |-> IF "plot_type" \in kw.given THEN kw.plot_type
                   ELSE DefaultPlotType,
     gene |-> IF "gene" \in kw.given THEN kw.gene ELSE DefaultGene,
     gene_out_pattern |-> DefaultGenePattern,
     out_pdf |-> OutPdf,
     extra |-> {}]

ConstructedConfigs ==
    { AnnotationConfig(RawRef, data_region, kw) :
        data_region \in {"eye", "retina"}, kw \in Keywords }

InitConstructed ==
    /\ pc = "load_main"
    /\ LegacyIdle
    /\ config \in ConstructedConfigs
    /\ data = NoData
    /\ ref = NoRef
    /\ res = NoRes
    /\ tried = <<>>
    /\ calls = <<>>
    /\ method_used = "none"
    /\ filter_calls = <<>>
    /\ plot_files = NoPlotFiles
    /\ saved = <<>>
    /\ open_figs = 0
    /\ valid_genes = <<>>
    /\ gi = 0
    /\ error = NoError
    /\ gene_str = NoneStr
    /\ genes = <<>>
    /\ reparsed = NoReparsed
    /\ validated = NoValidated
    /\ gpc = "off"

SpecConstructed == InitConstructed /\ [][Next]_vars

\* the config was built from its required fields only
RequiredFieldsOnly ==
    config = AnnotationConfig(config.ref_path, config.data_region, NoKeywords)

\* C22: the plot type of every AnnotationConfig is one of "cell", "gene",
\* "both", and a config built from its required fields only has plot type
\* "cell": a successful run with it saves exactly the cell plot at the
\* default cell-plot path and returns a cell list of length 1.
C22_DefaultPlotTypeIsCell ==
    /\ config.plot_type \in {"cell", "gene", "both"}
    /\ (RequiredFieldsOnly /\ pc = "done") =>
          /\ config.plot_type = "cell"
          /\ saved = <<OutPdf>>
          /\ plot_files.cell = <<OutPdf>>

----------------------------------------------------------------------------
(* The legacy Tk front-end (GUI.py) and the script it launches              *)
(* (singleR_annotation.py)                                                  *)

\* the form: reference file entry, reference column entry, region radio
Entries ==
    [ref_path : {"", RawRef}, ref_col : {"", "ClusterName"},
     region : {"eye", "retina", "cornea"}]

\* the process has ended with this exit status
Exited(code) == [present |-> TRUE, returncode |-> code]

\* lines the script prints on an error path
ErrorLines ==
    {"Error loading main data file", "Error loading reference file",
     "Error during reference data preprocessing", "Error during annotation",
     "Error during filtering for region", "Invalid option for -data",
     "Error generating or saving the cluster scatter plot"}

\* st.io.read_h5ad(args.ref)
ReadH5ad(path) ==
    [loaded |-> TRUE, marked |-> FileMarked(path), normalized |-> 0,
     log1p |-> 0, source |-> "disk"]

\* `print(...); return` in main(): main returns, the interpreter ends
\* normally, exit status 0
LegacyReturn(line) ==
    /\ stdout' = Append(stdout, line)
    /\ result' = Exited(0)
    /\ lpc' = "exited"

\* a stage that succeeded: its line is printed and the script goes on
LegacyGoOn(line, next) ==
    /\ stdout' = Append(stdout, line)
    /\ lpc' = next
    /\ UNCHANGED result

\* StereoAnnotationApp.run_annotation up to subprocess.run: the input check
\* and the launch of the script
GuiRunAnnotation ==
    /\ lpc = "idle"
    /\ IF entries.ref_path = "" \/ entries.ref_col = ""
       THEN /\ dialog' = "Please provide all required inputs."
            /\ lpc' = "reported"
            /\ UNCHANGED result
       ELSE \E outcome \in {"started", "spawn_fail", "no_script", "import_fail"} :
            CASE outcome = "started" ->
                    /\ lpc' = "load_main"
                    /\ UNCHANGED <<dialog, result>>
              [] outcome = "spawn_fail" ->
                    \* subprocess.run raises: the except branch
                    /\ dialog' = "An error occurred"
                    /\ lpc' = "reported"
                    /\ UNCHANGED result
              [] outcome = "no_script" ->
                    \* the interpreter does not find singleR_annotation.py
                    /\ result' = Exited(2)
                    /\ lpc' = "exited"
                    /\ UNCHANGED dialog
              [] outcome = "import_fail" ->
                    \* `import stereo` raises outside any try block
                    /\ result' = Exited(1)
                    /\ lpc' = "exited"
                    /\ UNCHANGED dialog
    /\ UNCHANGED <<entries, stdout>>
    /\ UNCHANGED <<pc, config, data, ref, res, tried, calls, method_used,
                   filter_calls, plotVars, error>>
    /\ UNCHANGED geneVars

\* main(): load the main data file
LegacyLoadMain ==
    /\ lpc = "load_main"
    /\ \E ok \in BOOLEAN, table \in Tables, has_phenograph \in BOOLEAN,
          gene_names \in RunVocabularies :
        IF ok
        THEN /\ data' = ReadStereo(table, gene_names, TRUE)
             /\ res' = ReadResult(table, has_phenograph)
             /\ LegacyGoOn("Loaded main data", "load_ref")
        ELSE /\ LegacyReturn("Error loading main data file")
             /\ UNCHANGED <<data, res>>
    /\ UNCHANGED <<entries, dialog>>
    /\ UNCHANGED <<pc, config, ref, tried, calls, method_used, filter_calls,
                   plotVars, error>>
    /\ UNCHANGED geneVars

\* main(): load the reference file
LegacyLoadRef ==
    /\ lpc = "load_ref"
    /\ \E ok \in BOOLEAN :
        IF ok
        THEN /\ ref' = ReadH5ad(entries.ref_path)
             /\ LegacyGoOn("Loaded reference data", "preprocess")
        ELSE /\ LegacyReturn("Error loading reference file")
             /\ UNCHANGED ref
    /\ UNCHANGED <<entries, dialog>>
    /\ UNCHANGED <<pc, config, data, res, tried, calls, method_used,
                   filter_calls, plotVars, error>>
    /\ UNCHANGED geneVars

\* main(): normalize_total and log1p on the reference
LegacyPreprocess ==
    /\ lpc = "preprocess"
    /\ \E outcome \in {"ok", "normalize_fail", "log1p_fail"} :
        /\ ref' = [ref EXCEPT
                     !.normalized = IF outcome = "normalize_fail" THEN 0 ELSE 1,
                     !.log1p = IF outcome = "ok" THEN 1 ELSE 0]
        /\ IF outcome = "ok"
           THEN LegacyGoOn("Reference data preprocessing completed", "annotate")
           ELSE LegacyReturn("Error during reference data preprocessing")
    /\ UNCHANGED <<entries, dialog>>
    /\ UNCHANGED <<pc, config, data, res, tried, calls, method_used,
                   filter_calls, plotVars, error>>
    /\ UNCHANGED geneVars

\* main(): data.tl.single_r(..., method='rapids'), with no retry
LegacyAnnotate ==
    /\ lpc = "annotate"
    /\ \/ /\ calls' = Append(calls, Call("rapids", TRUE, <<>>))
          /\ data' = [data EXCEPT !.annotation = TRUE]
          /\ LegacyGoOn("Annotation completed successfully!", "filter")
       \/ \E msg \in Messages :
          /\ calls' = Append(calls, Call("rapids", FALSE, msg))
          /\ LegacyReturn("Error during annotation")
          /\ UNCHANGED data
    /\ UNCHANGED <<entries, dialog>>
    /\ UNCHANGED <<pc, config, ref, res, tried, method_used, filter_calls,
                   plotVars, error>>
    /\ UNCHANGED geneVars

\* main(): the filter on the anatomical region (args.data)
LegacyFilter ==
    /\ lpc = "filter"
    /\ LET region == entries.region IN
       IF region = "eye"
       THEN /\ LegacyGoOn("Using 'eye' data; no additional filtering applied", "plot")
            /\ UNCHANGED <<data, res, filter_calls>>
       ELSE IF region \notin {"retina", "cornea"}
       THEN /\ LegacyReturn("Invalid option for -data")
            /\ UNCHANGED <<data, res, filter_calls>>
       ELSE IF ~res.present
       THEN /\ LegacyReturn("Error during filtering for region")
            /\ UNCHANGED <<data, res, filter_calls>>
       ELSE \E outcome \in {"ok", "map_fail", "filter_fail"} :
            IF outcome = "map_fail"
            THEN /\ LegacyReturn("Error during filtering for region")
                 /\ UNCHANGED <<data, res, filter_calls>>
            ELSE LET location == LocationColumn(res.rows)
                     bins == RegionBins(res.rows, location, region)
                 IN /\ res' = [res EXCEPT !.has_location = TRUE,
                                          !.location = location]
                    /\ filter_calls' = Append(filter_calls, bins)
                    /\ IF outcome = "ok"
                       THEN /\ data' = [data EXCEPT
                                          !.cells = FilterCells(data.cells, bins)]
                            /\ LegacyGoOn("Cells filtered for region", "plot")
                       ELSE /\ LegacyReturn("Error during filtering for region")
                            /\ UNCHANGED data
    /\ UNCHANGED <<entries, dialog>>
    /\ UNCHANGED <<pc, config, ref, tried, calls, method_used, plotVars, error>>
    /\ UNCHANGED geneVars

\* main(): the cluster scatter plot; the except branch prints and main ends
LegacyPlot ==
    /\ lpc = "plot"
    /\ \E outcome \in PlotOutcomes :
        /\ saved' = IF Wrote(outcome) THEN Append(saved, OutPdf) ELSE saved
        /\ stdout' = Append(stdout,
                        IF outcome = "ok" THEN "Cluster scatter plot saved"
                        ELSE "Error generating or saving the cluster scatter plot")
        /\ result' = Exited(0)
        /\ lpc' = "exited"
    /\ UNCHANGED <<entries, dialog>>
    /\ UNCHANGED <<pc, config, data, ref, res, tried, calls, method_used,
                   filter_calls, plot_files, open_figs, valid_genes, gi, error>>
    /\ UNCHANGED geneVars

\* StereoAnnotationApp.run_annotation after subprocess.run has returned
GuiReport ==
    /\ lpc = "exited"
    /\ dialog' = IF result.returncode = 0
                 THEN "Annotation completed successfully!"
                 ELSE "Annotation failed. Check the log for details."
    /\ lpc' = "reported"
    /\ UNCHANGED <<entries, stdout, result>>
    /\ UNCHANGED <<pc, config, data, ref, res, tried, calls, method_used,
                   filter_calls, plotVars, error>>
    /\ UNCHANGED geneVars

InitLegacy ==
    /\ pc = "off"
    /\ config = IdleConfig
    /\ data = NoData
    /\ ref = NoRef
    /\ res = NoRes
    /\ tried = <<>>
    /\ calls = <<>>
    /\ method_used = "none"
    /\ filter_calls = <<>>
    /\ plot_files = NoPlotFiles
    /\ saved = <<>>
    /\ open_figs = 0
    /\ valid_genes = <<>>
    /\ gi = 0
    /\ error = NoError
    /\ gene_str = NoneStr
    /\ genes = <<>>
    /\ reparsed = NoReparsed
    /\ validated = NoValidated
    /\ gpc = "off"
    /\ entries \in Entries
    /\ lpc = "idle"
    /\ stdout = <<>>
    /\ result = NoResult
    /\ dialog = "none"

NextLegacy ==
    \/ GuiRunAnnotation
    \/ LegacyLoadMain
    \/ LegacyLoadRef
    \/ LegacyPreprocess
    \/ LegacyAnnotate
    \/ LegacyFilter
    \/ LegacyPlot
    \/ GuiReport

SpecLegacy == InitLegacy /\ [][NextLegacy]_vars

\* the script went through annotation, filtering and plotting
ScriptCompleted ==
    /\ data.annotation
    /\ "Cluster scatter plot saved" \in Range(stdout)

\* the script took one of its error paths
ScriptHitError == Range(stdout) \cap ErrorLines # {}

\* C23: the legacy front-end reports success only when the script it launched
\* completed annotation, filtering and plotting; every error path of the
\* script ends with a non-zero exit status.
C23_SuccessOnlyWhenCompleted ==
    /\ (dialog = "Annotation completed successfully!") => ScriptCompleted
    /\ (result.present /\ ScriptHitError) => result.returncode # 0

=============================================================================
